---------------------------- MODULE Spec2Model ----------------------------
(***************************************************************************)
(* EchoWrite: the write -> review -> edit refinement loop of process_url   *)
(* (human_interface/app.py), the reviewer's fallback verdict               *)
(* (agents/reviewer_agent.py) and the reward model                         *)
(* (rl_models/reward_model.py).                                            *)
(*                                                                         *)
(* Python dicts are records; a key the dict lacks is a field the record    *)
(* lacks, and d.get(k, default) is Get(d, k, default).  Texts are opaque   *)
(* tokens: the scraped source is <<"source">>, the n-th generator output   *)
(* of a run is <<"write", 1>> or <<"edit", n>>.  Floats are exact          *)
(* rationals <<numerator, denominator>> with a positive denominator.       *)
(***************************************************************************)
EXTENDS Integers, Sequences, FiniteSets, TLC

VARIABLES
    pc,                 \* position of process_url: idle, generating, reviewing,
                        \* decision, saving, done, failed, scrape_failed
    url,                \* argument of process_url
    style,              \* argument of process_url
    max_iterations,     \* argument of process_url
    scraped,            \* scraper.scrape_url(url)
    current_content,    \* local of process_url
    iterations,         \* local of process_url: the trace
    i,                  \* loop variable of `for i in range(max_iterations)`
    versions,           \* what vm.save_version has stored
    processing_history, \* st.session_state.processing_history
    result,             \* what process_url returned (NoResult before)
    error,              \* the exception that left process_url (NoError if none)
    calls,              \* the writer / editor / reviewer calls made, in order
    learning_history,   \* RewardModel.learning_history
    persisted,          \* content of learning_history.json
    style_preferences,  \* RewardModel.style_preferences
    rm_error,           \* the exception the last record_feedback raised (NoError if none)
    reward_args,        \* arguments of the last calculate_reward call
    reward,             \* what the last calculate_reward call returned
    returned,           \* the last RewardModel call: its name, and for a query its
                        \* argument and the value it returned
    callers,            \* two callers, each holding its own RewardModel over the
                        \* same file: its position in record_feedback, its
                        \* learning_history and its style_preferences
    recorded,           \* the record_feedback calls that have returned, in order:
                        \* the caller and the entry
    engine              \* a ContentSelectionEngine: its exploration_rate, the
                        \* position and locals of generate_multiple_versions, the
                        \* writer and reviewer calls it made, and the list handed
                        \* to select_best_version

runVars == <<pc, url, style, max_iterations, scraped, current_content, iterations,
             i, versions, processing_history, result, error, calls>>
rewardVars == <<learning_history, persisted, style_preferences, rm_error,
               reward_args, reward, returned>>
concVars == <<callers, recorded>>
engineVars == <<engine>>
vars == <<pc, url, style, max_iterations, scraped, current_content, iterations,
          i, versions, processing_history, result, error, calls,
          learning_history, persisted, style_preferences, rm_error,
          reward_args, reward, returned, callers, recorded, engine>>

---------------------------------------------------------------------------
(* Bounds of the model *)

\* largest max_iterations explored (the slider of app.py offers 1..5)
MaxIterBound == 3

\* most record_feedback calls explored
MaxFeedback == 3

---------------------------------------------------------------------------
(* Program constants *)

\* `review.get('quality_score', 0) >= 8`
QualityThreshold == 8

\* the fallback verdict of ReviewerAgent.review_content
FallbackQuality == 7
FallbackClarity == 7
FallbackEngagement == 7
FallbackAccuracy == 8

---------------------------------------------------------------------------
(* Dicts *)

\* d.get(k, default)
Last(seq) == seq[Len(seq)]

Get(d, k, default) == IF k \in DOMAIN d THEN d[k] ELSE default

\* the truth value of d.get(k) for a boolean entry: a missing key gives None
Truthy(d, k) == IF k \in DOMAIN d THEN d[k] ELSE FALSE

NoResult == [none |-> TRUE]
NoError == "none"
SourceText == <<"source">>

Urls == {"u1"}
\* two of the styles the selectbox of app.py offers
Styles == {"engaging", "professional"}

---------------------------------------------------------------------------
(* Reviewer *)

\* quality scores a parsed verdict carries: below, at and above the threshold
QualityValues == {5, 8, 9}

\* What json.loads may give: a verdict with every key the loop reads, one
\* without quality_score, one without ready_for_human.
ParsedVerdicts ==
    [quality_score : QualityValues, ready_for_human : BOOLEAN,
     improvements_needed : {<<"tighten">>}, overall_feedback : {"notes"}]
    \cup [ready_for_human : {TRUE},
          improvements_needed : {<<>>}, overall_feedback : {"notes"}]
    \cup [quality_score : {9},
          improvements_needed : {<<>>}, overall_feedback : {"notes"}]

\* How the try block of review_content can fail: generate_content (or
\* response.text) raises before `text` is bound, or `text` is bound and holds
\* no JSON object / json.loads raises.
ReviewFailures == {"call_error", "parse_error"}

\* the except branch, had its default quality_score been the threshold
FallbackVerdict_Passing(failure) ==
    [quality_score |-> QualityThreshold,
     clarity_score |-> FallbackClarity,
     engagement_score |-> FallbackEngagement,
     accuracy_score |-> FallbackAccuracy,
     improvements_needed |-> <<"Error parsing AI response">>,
     ready_for_human |-> TRUE,
     overall_feedback |-> IF failure = "parse_error" THEN "raw_response_text"
                          ELSE "exception_message"]

\* the except branch, had it left ready_for_human false
FallbackVerdict_NotReady(failure) ==
    [quality_score |-> FallbackQuality,
     clarity_score |-> FallbackClarity,
     engagement_score |-> FallbackEngagement,
     accuracy_score |-> FallbackAccuracy,
     improvements_needed |-> <<"Error parsing AI response">>,
     ready_for_human |-> FALSE,
     overall_feedback |-> IF failure = "parse_error" THEN "raw_response_text"
                          ELSE "exception_message"]

\* the except branch of review_content
FallbackVerdict(failure) ==
    [quality_score |-> FallbackQuality,
     clarity_score |-> FallbackClarity,
     engagement_score |-> FallbackEngagement,
     accuracy_score |-> FallbackAccuracy,
     improvements_needed |-> <<"Error parsing AI response">>,
     ready_for_human |-> TRUE,
     overall_feedback |-> IF failure = "parse_error" THEN "raw_response_text"
                          ELSE "exception_message"]

\* the outcomes of one reviewer call: <<how the try block ended, the dict returned>>
ReviewOutcomes ==
    { <<"ok", v>> : v \in ParsedVerdicts }
    \cup { <<f, FallbackVerdict(f)>> : f \in ReviewFailures }

---------------------------------------------------------------------------
(* process_url *)

\* line 91 with `or` for `and`
ExitCondition_Or(review) ==
    Truthy(review, "ready_for_human")
    \/ Get(review, "quality_score", 0) >= QualityThreshold

\* line 91 with `>` for `>=`
ExitCondition_Strict(review) ==
    Truthy(review, "ready_for_human")
    /\ Get(review, "quality_score", 0) > QualityThreshold

\* line 91: review.get('ready_for_human') and review.get('quality_score', 0) >= 8
ExitCondition(review) ==
    Truthy(review, "ready_for_human")
    /\ Get(review, "quality_score", 0) >= QualityThreshold

\* a result an earlier run of the session left in processing_history
EarlierResult ==
    [url |-> "u0", version_id |-> 1, original |-> SourceText,
     final |-> <<"write", 1>>,
     iterations |-> << [iteration |-> 1, content |-> <<"write", 1>>,
                        review |-> [quality_score |-> 9, ready_for_human |-> TRUE,
                                    improvements_needed |-> <<>>,
                                    overall_feedback |-> "notes"]] >>]
EarlierVersion ==
    [url |-> "u0", original |-> SourceText, rewritten |-> <<"write", 1>>,
     metadata |-> [style |-> "engaging", iterations |-> 1, quality_score |-> 9]]

\* lines 55-69: the call, the scrape, the early return, the locals
StartRun ==
    /\ pc = "idle"
    /\ \E u \in Urls, s \in Styles, m \in 1..MaxIterBound, ok \in BOOLEAN :
         /\ url' = u
         /\ style' = s
         /\ max_iterations' = m
         /\ IF ok
            THEN /\ scraped' = [success |-> TRUE, content |-> SourceText]
                 /\ current_content' = SourceText
                 /\ iterations' = <<>>
                 /\ pc' = "generating"
            ELSE /\ scraped' = [success |-> FALSE, error |-> "scrape_error"]
                 /\ UNCHANGED <<current_content, iterations>>
                 /\ pc' = "scrape_failed"
    /\ i' = 0
    /\ UNCHANGED <<versions, processing_history, result, error, calls>>
    /\ UNCHANGED rewardVars
    /\ UNCHANGED engineVars
    /\ UNCHANGED concVars

\* lines 75-80, had every round rewritten the scraped text instead of editing
\* the round before
GenerateOk_RewritesEachRound ==
    /\ pc = "generating"
    /\ current_content' = <<"write", i + 1>>
    /\ calls' = Append(calls, [op |-> "write", content |-> scraped.content,
                               style |-> style, ok |-> TRUE,
                               out |-> <<"write", i + 1>>])
    /\ pc' = "reviewing"
    /\ UNCHANGED <<url, style, max_iterations, scraped, iterations, i, versions,
                   processing_history, result, error>>
    /\ UNCHANGED rewardVars
    /\ UNCHANGED engineVars
    /\ UNCHANGED concVars

\* lines 75-80 when the generator call returns
GenerateOk ==
    /\ pc = "generating"
    /\ IF i = 0
       THEN /\ current_content' = <<"write", 1>>
            /\ calls' = Append(calls, [op |-> "write", content |-> current_content,
                                       style |-> style, ok |-> TRUE,
                                       out |-> <<"write", 1>>])
       ELSE /\ current_content' = <<"edit", i + 1>>
            /\ calls' = Append(calls, [op |-> "edit", content |-> current_content,
                                       review |-> iterations[Len(iterations)].review,
                                       ok |-> TRUE, out |-> <<"edit", i + 1>>])
    /\ pc' = "reviewing"
    /\ UNCHANGED <<url, style, max_iterations, scraped, iterations, i, versions,
                   processing_history, result, error>>
    /\ UNCHANGED rewardVars
    /\ UNCHANGED engineVars
    /\ UNCHANGED concVars

\* lines 75-80, had the loop caught the generator's exception and gone on
\* with the content it had
GenerateFail_Swallowed ==
    /\ pc = "generating"
    /\ IF i = 0
       THEN calls' = Append(calls, [op |-> "write", content |-> current_content,
                                    style |-> style, ok |-> FALSE])
       ELSE calls' = Append(calls, [op |-> "edit", content |-> current_content,
                                    review |-> iterations[Len(iterations)].review,
                                    ok |-> FALSE])
    /\ pc' = "reviewing"
    /\ UNCHANGED <<url, style, max_iterations, scraped, current_content, iterations,
                   i, versions, processing_history, result, error>>
    /\ UNCHANGED rewardVars
    /\ UNCHANGED engineVars
    /\ UNCHANGED concVars

\* lines 75-80 when rewrite_content / improve_content raises RuntimeError:
\* nothing in process_url catches it
GenerateFail ==
    /\ pc = "generating"
    /\ IF i = 0
       THEN /\ error' = "AI generation failed"
            /\ calls' = Append(calls, [op |-> "write", content |-> current_content,
                                       style |-> style, ok |-> FALSE])
       ELSE /\ error' = "AI editing failed"
            /\ calls' = Append(calls, [op |-> "edit", content |-> current_content,
                                       review |-> iterations[Len(iterations)].review,
                                       ok |-> FALSE])
    /\ pc' = "failed"
    /\ UNCHANGED <<url, style, max_iterations, scraped, current_content, iterations,
                   i, versions, processing_history, result>>
    /\ UNCHANGED rewardVars
    /\ UNCHANGED engineVars
    /\ UNCHANGED concVars

\* lines 82-89, had the record carried the 0-based loop variable
Review_ZeroBased ==
    /\ pc = "reviewing"
    /\ \E o \in ReviewOutcomes :
         /\ calls' = Append(calls, [op |-> "review", original |-> scraped.content,
                                    content |-> current_content, outcome |-> o[1],
                                    verdict |-> o[2]])
         /\ iterations' = Append(iterations, [iteration |-> i,
                                              content |-> current_content,
                                              review |-> o[2]])
    /\ pc' = "decision"
    /\ UNCHANGED <<url, style, max_iterations, scraped, current_content, i, versions,
                   processing_history, result, error>>
    /\ UNCHANGED rewardVars
    /\ UNCHANGED engineVars
    /\ UNCHANGED concVars

\* lines 82-89: the review (never raises) and the record appended
Review ==
    /\ pc = "reviewing"
    /\ \E o \in ReviewOutcomes :
         /\ calls' = Append(calls, [op |-> "review", original |-> scraped.content,
                                    content |-> current_content, outcome |-> o[1],
                                    verdict |-> o[2]])
         /\ iterations' = Append(iterations, [iteration |-> i + 1,
                                              content |-> current_content,
                                              review |-> o[2]])
    /\ pc' = "decision"
    /\ UNCHANGED <<url, style, max_iterations, scraped, current_content, i, versions,
                   processing_history, result, error>>
    /\ UNCHANGED rewardVars
    /\ UNCHANGED engineVars
    /\ UNCHANGED concVars

\* the loop, had it run one round past max_iterations
Decide_OffByOne ==
    /\ pc = "decision"
    /\ IF ExitCondition(iterations[Len(iterations)].review)
       THEN /\ pc' = "saving"
            /\ i' = i
       ELSE IF i + 1 <= max_iterations
       THEN /\ pc' = "generating"
            /\ i' = i + 1
       ELSE /\ pc' = "saving"
            /\ i' = i
    /\ UNCHANGED <<url, style, max_iterations, scraped, current_content, iterations,
                   versions, processing_history, result, error, calls>>
    /\ UNCHANGED rewardVars
    /\ UNCHANGED engineVars
    /\ UNCHANGED concVars

\* the loop, had it been `for i in range(max_iterations - 1)` (one round at least)
Decide_ShortLoop ==
    /\ pc = "decision"
    /\ IF ExitCondition(iterations[Len(iterations)].review)
       THEN /\ pc' = "saving"
            /\ i' = i
       ELSE IF i + 2 < max_iterations
       THEN /\ pc' = "generating"
            /\ i' = i + 1
       ELSE /\ pc' = "saving"
            /\ i' = i
    /\ UNCHANGED <<url, style, max_iterations, scraped, current_content, iterations,
                   versions, processing_history, result, error, calls>>
    /\ UNCHANGED rewardVars
    /\ UNCHANGED engineVars
    /\ UNCHANGED concVars

\* lines 91-92 and the loop header of line 71
Decide ==
    /\ pc = "decision"
    /\ IF ExitCondition(iterations[Len(iterations)].review)
       THEN /\ pc' = "saving"
            /\ i' = i
       ELSE IF i + 1 < max_iterations
       THEN /\ pc' = "generating"
            /\ i' = i + 1
       ELSE /\ pc' = "saving"
            /\ i' = i
    /\ UNCHANGED <<url, style, max_iterations, scraped, current_content, iterations,
                   versions, processing_history, result, error, calls>>
    /\ UNCHANGED rewardVars
    /\ UNCHANGED engineVars
    /\ UNCHANGED concVars

\* lines 94-122, had the result carried the scraped text as its final content
Save_ReturnsSource ==
    /\ pc = "saving"
    /\ versions' = Append(versions,
            [url |-> url, original |-> scraped.content, rewritten |-> current_content,
             metadata |-> [style |-> style, iterations |-> Len(iterations),
                           quality_score |->
                               Get(iterations[Len(iterations)].review,
                                   "quality_score", 0)]])
    /\ result' = [url |-> url, version_id |-> Len(versions) + 1,
                  original |-> scraped.content, final |-> scraped.content,
                  iterations |-> iterations]
    /\ processing_history' = Append(processing_history, result')
    /\ pc' = "done"
    /\ UNCHANGED <<url, style, max_iterations, scraped, current_content, iterations,
                   i, error, calls>>
    /\ UNCHANGED rewardVars
    /\ UNCHANGED engineVars
    /\ UNCHANGED concVars

\* lines 94-122: the version saved, the result built, appended and returned
Save ==
    /\ pc = "saving"
    /\ versions' = Append(versions,
            [url |-> url, original |-> scraped.content, rewritten |-> current_content,
             metadata |-> [style |-> style, iterations |-> Len(iterations),
                           quality_score |->
                               Get(iterations[Len(iterations)].review,
                                   "quality_score", 0)]])
    /\ result' = [url |-> url, version_id |-> Len(versions) + 1,
                  original |-> scraped.content, final |-> current_content,
                  iterations |-> iterations]
    /\ processing_history' = Append(processing_history, result')
    /\ pc' = "done"
    /\ UNCHANGED <<url, style, max_iterations, scraped, current_content, iterations,
                   i, error, calls>>
    /\ UNCHANGED rewardVars
    /\ UNCHANGED engineVars
    /\ UNCHANGED concVars

---------------------------------------------------------------------------
(* Floats as exact rationals <<n, d>>, d > 0, in lowest terms *)

RECURSIVE Gcd(_, _)
Gcd(a, b) == IF b = 0 THEN a ELSE Gcd(b, a % b)

Abs(a) == IF a < 0 THEN -a ELSE a

Rat(n, d) ==
    LET g == Gcd(Abs(n), d) IN IF g = 0 THEN <<0, 1>> ELSE <<n \div g, d \div g>>

RAdd(x, y) == Rat(x[1] * y[2] + y[1] * x[2], x[2] * y[2])
RMul(x, y) == Rat(x[1] * y[1], x[2] * y[2])
\* x / k for an integer k > 0
RDivInt(x, k) == Rat(x[1], x[2] * k)
RLeq(x, y) == x[1] * y[2] <= y[1] * x[2]

RECURSIVE RSum(_)
RSum(seq) == IF seq = <<>> THEN <<0, 1>> ELSE RAdd(Head(seq), RSum(Tail(seq)))

---------------------------------------------------------------------------
(* RewardModel *)

\* ratings a caller passes, in tenths: the slider of app.py gives 0..10;
\* record_feedback itself takes any float
RatingTenths == {6, 8, 10, 15}

\* the ratings the slider of app.py (0.0 to 1.0 in steps of 0.1) passes, of
\* which three are explored
SliderTenths == {6, 8, 10}

\* metadata dicts passed to record_feedback: style and iteration_count given
\* (as app.py does) or left to their defaults
Metadatas ==
    { [style |-> "engaging", iteration_count |-> 1],
      [style |-> "engaging", iteration_count |-> 2],
      [style |-> "professional", iteration_count |-> 2],
      [ai_scores |-> [quality_score |-> 7]] }

\* the metadata app.py passes (lines 354-357): style and iteration_count always
\* given, the style 'unknown' when the version has none
AppMetadatas ==
    { [style |-> "engaging", iteration_count |-> 1],
      [style |-> "professional", iteration_count |-> 2],
      [style |-> "unknown", iteration_count |-> 1] }

NoScores == [none \in {} |-> 0]

\* lines 14-23: the entry record_feedback builds (the timestamp is left out)
FeedbackEntry(version_id, content_length, metadata, human_rating, human_feedback) ==
    [version_id |-> version_id,
     content_length |-> content_length,
     style |-> Get(metadata, "style", "unknown"),
     ai_scores |-> Get(metadata, "ai_scores", NoScores),
     human_rating |-> human_rating,
     human_feedback |-> human_feedback,
     iteration_count |-> Get(metadata, "iteration_count", 1)]

\* the styles of a history
StylesOf(history) == { history[k].style : k \in DOMAIN history }

\* the ratings of the entries of one style, in order
RECURSIVE RatingsOf(_, _)
RatingsOf(history, s) ==
    IF history = <<>> THEN <<>>
    ELSE IF Head(history).style = s
         THEN <<Head(history).human_rating>> \o RatingsOf(Tail(history), s)
         ELSE RatingsOf(Tail(history), s)

\* lines 28-33: update_weights
UpdatedWeights(history) ==
    [s \in StylesOf(history) |->
        RDivInt(RSum(RatingsOf(history, s)), Len(RatingsOf(history, s)))]

\* no RewardModel call made yet
NoReturn == [op |-> "none"]

\* the ledger file: missing, holding a JSON list, or cut short by a failed write
NoFile == [state |-> "missing"]
FileWith(history) == [state |-> "json", entries |-> history]
BrokenFile == [state |-> "corrupt"]

\* lines 59-63: load_history.  A missing file gives the empty list; json.load
\* of a file cut short raises, and __init__ (line 10) does not catch it
load_history(file) ==
    IF file.state = "missing" THEN [raised |-> FALSE, history |-> <<>>]
    ELSE IF file.state = "json" THEN [raised |-> FALSE, history |-> file.entries]
    ELSE [raised |-> TRUE]

\* lines 13-26, had the history been keyed by version_id: a second entry for
\* a version replaces the first
RecordFeedback_KeyedByVersion(version_id, content_length, metadata, rating, human_feedback) ==
    /\ learning_history' =
          LET entry == FeedbackEntry(version_id, content_length, metadata, rating,
                                     human_feedback)
          IN  IF \E k \in DOMAIN learning_history :
                     learning_history[k].version_id = version_id
              THEN [k \in DOMAIN learning_history |->
                        IF learning_history[k].version_id = version_id
                        THEN entry ELSE learning_history[k]]
              ELSE Append(learning_history, entry)
    /\ persisted' = FileWith(learning_history')
    /\ style_preferences' = UpdatedWeights(learning_history')
    /\ rm_error' = NoError
    /\ returned' = [op |-> "record_feedback"]
    /\ UNCHANGED <<reward_args, reward>>
    /\ UNCHANGED runVars
    /\ UNCHANGED engineVars
    /\ UNCHANGED concVars

\* lines 13-26 when save_history returns
RecordFeedback(version_id, content_length, metadata, rating, human_feedback) ==
    /\ learning_history' = Append(learning_history,
            FeedbackEntry(version_id, content_length, metadata, rating, human_feedback))
    /\ persisted' = FileWith(learning_history')
    /\ style_preferences' = UpdatedWeights(learning_history')
    /\ rm_error' = NoError
    /\ returned' = [op |-> "record_feedback"]
    /\ UNCHANGED <<reward_args, reward>>
    /\ UNCHANGED runVars
    /\ UNCHANGED engineVars
    /\ UNCHANGED concVars

\* lines 13-26, had record_feedback caught the exception of save_history and
\* gone on
RecordFeedbackSaveFails_Swallowed(version_id, content_length, metadata, rating, human_feedback) ==
    /\ learning_history' = Append(learning_history,
            FeedbackEntry(version_id, content_length, metadata, rating, human_feedback))
    /\ persisted' \in {persisted, BrokenFile}
    /\ style_preferences' = UpdatedWeights(learning_history')
    /\ rm_error' = NoError
    /\ returned' = [op |-> "record_feedback"]
    /\ UNCHANGED <<reward_args, reward>>
    /\ UNCHANGED runVars
    /\ UNCHANGED engineVars
    /\ UNCHANGED concVars

\* lines 13-26, had record_feedback taken the entry back when save_history
\* raised
RecordFeedbackSaveFails_RollsBack(version_id, content_length, metadata, rating, human_feedback) ==
    /\ learning_history' = learning_history
    /\ persisted' \in {persisted, BrokenFile}
    /\ rm_error' = "io_error"
    /\ returned' = [op |-> "record_feedback"]
    /\ UNCHANGED <<style_preferences, reward_args, reward>>
    /\ UNCHANGED runVars
    /\ UNCHANGED engineVars
    /\ UNCHANGED concVars

\* lines 13-26 when save_history raises: open(path, 'w') fails and leaves the
\* file as it was, or json.dump fails after open has truncated it
RecordFeedbackSaveFails(version_id, content_length, metadata, rating, human_feedback) ==
    /\ learning_history' = Append(learning_history,
            FeedbackEntry(version_id, content_length, metadata, rating, human_feedback))
    /\ persisted' \in {persisted, BrokenFile}
    /\ rm_error' = "io_error"
    /\ returned' = [op |-> "record_feedback"]
    /\ UNCHANGED <<style_preferences, reward_args, reward>>
    /\ UNCHANGED runVars
    /\ UNCHANGED engineVars
    /\ UNCHANGED concVars

Mean(ratings) == RDivInt(RSum(ratings), Len(ratings))

\* lines 35-40, had the scores not been filtered by style
predict_quality_AllStyles(history, metadata) ==
    IF history = <<>> THEN <<1, 2>>
    ELSE Mean([k \in DOMAIN history |-> history[k].human_rating])

\* lines 35-40: predict_quality
predict_quality(history, metadata) ==
    IF history = <<>> THEN <<1, 2>>
    ELSE LET scores == RatingsOf(history, Get(metadata, "style", "unknown"))
         IN  IF scores # <<>> THEN Mean(scores) ELSE <<1, 2>>

\* the keys of a dict filled by setdefault over the history, in insertion
\* order: the values of `field` by first occurrence
RECURSIVE KeyOrder(_, _)
KeyOrder(history, field) ==
    IF history = <<>> THEN <<>>
    ELSE LET front == KeyOrder(SubSeq(history, 1, Len(history) - 1), field)
             key == history[Len(history)][field]
         IN  IF \E k \in DOMAIN front : front[k] = key THEN front
             ELSE Append(front, key)

\* the ratings of the entries whose `field` is `key`, in order
RECURSIVE RatingsBy(_, _, _)
RatingsBy(history, field, key) ==
    IF history = <<>> THEN <<>>
    ELSE IF Head(history)[field] = key
         THEN <<Head(history).human_rating>> \o RatingsBy(Tail(history), field, key)
         ELSE RatingsBy(Tail(history), field, key)

\* a max that keeps the last of several maximal keys
FirstMax_LastWins(keys, history, field) ==
    LET val(k) == Mean(RatingsBy(history, field, keys[k]))
        best == CHOOSE k \in DOMAIN keys :
                    /\ \A j \in DOMAIN keys : RLeq(val(j), val(k))
                    /\ \A j \in (k + 1)..Len(keys) : ~RLeq(val(k), val(j))
    IN  keys[best]

\* max(keys, key=...) of Python: the first key, in iteration order, whose
\* value no other key exceeds
FirstMax(keys, history, field) ==
    LET val(k) == Mean(RatingsBy(history, field, keys[k]))
        best == CHOOSE k \in DOMAIN keys :
                    /\ \A j \in DOMAIN keys : RLeq(val(j), val(k))
                    /\ \A j \in 1..(k - 1) : ~RLeq(val(k), val(j))
    IN  keys[best]

\* max over the sums of the buckets instead of their means
FirstMaxBySum(keys, history, field) ==
    LET val(k) == RSum(RatingsBy(history, field, keys[k]))
        best == CHOOSE k \in DOMAIN keys :
                    /\ \A j \in DOMAIN keys : RLeq(val(j), val(k))
                    /\ \A j \in 1..(k - 1) : ~RLeq(val(k), val(j))
    IN  keys[best]

\* the defaults of get_best_parameters on an empty history (line 44)
DefaultStyle == "engaging"
DefaultIterations == 2

\* lines 42-53, had the buckets been compared by total as get_statistics does
get_best_parameters_BySum(history) ==
    IF history = <<>>
    THEN [style |-> DefaultStyle, iterations |-> DefaultIterations, avg_score |-> <<0, 1>>]
    ELSE LET best_style == FirstMaxBySum(KeyOrder(history, "style"), history, "style")
             best_iter == FirstMaxBySum(KeyOrder(history, "iteration_count"), history,
                                        "iteration_count")
         IN  [style |-> best_style, iterations |-> best_iter,
              avg_score |-> Mean(RatingsBy(history, "style", best_style))]

\* lines 42-53, had the empty-history default of iterations been the default
\* iteration_count of record_feedback
get_best_parameters_DefaultOne(history) ==
    IF history = <<>>
    THEN [style |-> DefaultStyle, iterations |-> 1, avg_score |-> <<0, 1>>]
    ELSE LET best_style == FirstMax(KeyOrder(history, "style"), history, "style")
             best_iter == FirstMax(KeyOrder(history, "iteration_count"), history,
                                   "iteration_count")
         IN  [style |-> best_style, iterations |-> best_iter,
              avg_score |-> Mean(RatingsBy(history, "style", best_style))]

\* lines 42-53: get_best_parameters
get_best_parameters(history) ==
    IF history = <<>>
    THEN [style |-> DefaultStyle, iterations |-> DefaultIterations, avg_score |-> <<0, 1>>]
    ELSE LET best_style == FirstMax(KeyOrder(history, "style"), history, "style")
             best_iter == FirstMax(KeyOrder(history, "iteration_count"), history,
                                   "iteration_count")
         IN  [style |-> best_style, iterations |-> best_iter,
              avg_score |-> Mean(RatingsBy(history, "style", best_style))]

\* line 75: the ratings of all entries, in order
RECURSIVE AllRatings(_)
AllRatings(history) ==
    IF history = <<>> THEN <<>>
    ELSE <<Head(history).human_rating>> \o AllRatings(Tail(history))

\* line 77: style_detail; its 'average' is the sum of the style's ratings
StyleDetail(history) ==
    [s \in StylesOf(history) |->
        [count |-> Len(RatingsOf(history, s)),
         average |-> RSum(RatingsOf(history, s))]]

\* lines 72-79, had total_feedback counted the styles
GetStatisticsResults_CountsStyles(history) ==
    IF history = <<>>
    THEN { [total_feedback |-> 0, average_rating |-> <<0, 1>>,
            best_style |-> "unknown", styles_tested |-> 0] }
    ELSE LET detail == StyleDetail(history)
         IN  { [total_feedback |-> Cardinality(StylesOf(history)),
                average_rating |-> Mean(AllRatings(history)),
                best_style |-> b,
                styles_tested |-> Cardinality(StylesOf(history)),
                style_details |-> detail] :
               b \in { s \in DOMAIN detail :
                         \A t \in DOMAIN detail :
                             RLeq(detail[t].average, detail[s].average) } }

\* lines 72-79, had the empty history given the default style of
\* get_best_parameters
GetStatisticsResults_EmptyEngaging(history) ==
    IF history = <<>>
    THEN { [total_feedback |-> 0, average_rating |-> <<0, 1>>,
            best_style |-> DefaultStyle, styles_tested |-> 0] }
    ELSE LET detail == StyleDetail(history)
         IN  { [total_feedback |-> Len(AllRatings(history)),
                average_rating |-> Mean(AllRatings(history)),
                best_style |-> b,
                styles_tested |-> Cardinality(StylesOf(history)),
                style_details |-> detail] :
               b \in { s \in DOMAIN detail :
                         \A t \in DOMAIN detail :
                             RLeq(detail[t].average, detail[s].average) } }

\* lines 72-79: get_statistics.  style_detail is filled in the iteration order
\* of the set `styles`, which for strings changes with the hash seed of the
\* process, and max returns the first key with the largest 'average': any key
\* with the largest 'average' can be the one returned.
GetStatisticsResults(history) ==
    IF history = <<>>
    THEN { [total_feedback |-> 0, average_rating |-> <<0, 1>>,
            best_style |-> "unknown", styles_tested |-> 0] }
    ELSE LET detail == StyleDetail(history)
         IN  { [total_feedback |-> Len(AllRatings(history)),
                average_rating |-> Mean(AllRatings(history)),
                best_style |-> b,
                styles_tested |-> Cardinality(StylesOf(history)),
                style_details |-> detail] :
               b \in { s \in DOMAIN detail :
                         \A t \in DOMAIN detail :
                             RLeq(detail[t].average, detail[s].average) } }

\* the metadata dicts passed to predict_quality: a style with or without
\* feedback, or none (the style defaults to 'unknown')
QueryMetadatas ==
    { [style |-> "engaging"], [style |-> "professional"], [style |-> "creative"],
      [iteration_count |-> 1] }

\* the scores an ai_review dict may hold under each key (0: unset)
ScoreValues == {0, 1, 7, 10}
ScoreKeys == <<"quality_score", "clarity_score", "engagement_score", "accuracy_score">>

\* lines 66-67: the non-zero scores, in key order
RECURSIVE PositiveScores(_, _)
PositiveScores(ai_review, keys) ==
    IF keys = <<>> THEN <<>>
    ELSE IF Get(ai_review, Head(keys), 0) > 0
         THEN <<Rat(Get(ai_review, Head(keys), 0), 1)>>
                  \o PositiveScores(ai_review, Tail(keys))
         ELSE PositiveScores(ai_review, Tail(keys))

\* no human_feedback argument
None == [none |-> TRUE]

\* lines 65-70, had the sum been divided by the four keys instead of the
\* number of non-zero scores
calculate_reward_MeanOfFour(ai_review, human_feedback) ==
    LET scores == PositiveScores(ai_review, ScoreKeys)
        base == IF scores # <<>>
                THEN RDivInt(RDivInt(RSum(scores), Len(ScoreKeys)), 10)
                ELSE <<1, 2>>
    IN  IF human_feedback # None /\ DOMAIN human_feedback # {}
           /\ "rating" \in DOMAIN human_feedback
        THEN RAdd(RMul(<<7, 10>>, human_feedback.rating), RMul(<<3, 10>>, base))
        ELSE base

\* lines 65-70: calculate_reward
calculate_reward(ai_review, human_feedback) ==
    LET scores == PositiveScores(ai_review, ScoreKeys)
        base == IF scores # <<>>
                THEN RDivInt(RDivInt(RSum(scores), Len(scores)), 10)
                ELSE <<1, 2>>
    IN  IF human_feedback # None /\ DOMAIN human_feedback # {}
           /\ "rating" \in DOMAIN human_feedback
        THEN RAdd(RMul(<<7, 10>>, human_feedback.rating), RMul(<<3, 10>>, base))
        ELSE base

\* the ai_review dicts: any of the four score keys present or not
AiReviews ==
    UNION { [K -> ScoreValues] :
            K \in SUBSET {ScoreKeys[k] : k \in DOMAIN ScoreKeys} }

\* the human_feedback arguments: none, an empty dict, a dict with a rating, a
\* dict without one; the voice command parser gives whole-number ratings such
\* as 8 (80 tenths)
HumanFeedbacks ==
    {None, NoScores, [comment |-> "text"]}
    \cup { [rating |-> Rat(t, 10)] : t \in RatingTenths \cup {-5, 0, 80} }

NotComputed == <<>>

---------------------------------------------------------------------------
(* ContentSelectionEngine.select_best_version *)

\* most variants in a list handed to select_best_version or asked of
\* generate_multiple_versions
MaxVariants == 3

RLess(a, b) == ~RLeq(b, a)

\* line 8 of interference_engine.py: the default exploration_rate, 0.1
DefaultExplorationRate == <<1, 10>>

\* ContentSelectionEngine(reward_model) before any of its methods is called
EngineIdle ==
    engine = [exploration_rate |-> DefaultExplorationRate, pc |-> "idle",
              content |-> SourceText, n_versions |-> 0, versions |-> <<>>,
              calls |-> <<>>]

\* np.argmax keeping the last of several maximal elements
ArgMax_LastWins(rewards) ==
    CHOOSE k \in DOMAIN rewards :
        /\ \A j \in DOMAIN rewards : RLeq(rewards[j], rewards[k])
        /\ \A j \in (k + 1)..Len(rewards) : ~RLeq(rewards[k], rewards[j])

\* line 22: np.argmax, the first index of the maximum
ArgMax(rewards) ==
    CHOOSE k \in DOMAIN rewards :
        /\ \A j \in DOMAIN rewards : RLeq(rewards[j], rewards[k])
        /\ \A j \in 1..(k - 1) : ~RLeq(rewards[k], rewards[j])

\* lines 15-21: the reward of each variant
VariantRewards(candidates) ==
    [k \in DOMAIN candidates |->
        calculate_reward(Get(candidates[k], "ai_review", NoScores),
                         Get(candidates[k], "human_feedback", NoScores))]

\* lines 12-23: select_best_version of the list `versions`, given what
\* np.random.random() drew and the index np.random.choice would pick
select_best_version(candidates, exploration_rate, draw, pick) ==
    IF RLess(draw, exploration_rate)
    THEN [explored |-> TRUE, value |-> candidates[pick]]
    ELSE [explored |-> FALSE,
          value |-> candidates[ArgMax(VariantRewards(candidates))]]

\* np.random.random() is in [0, 1)
RandomDraws == { <<0, 1>>, <<1, 20>>, <<1, 2>>, <<19, 20>> }

ExplorationRates == { <<0, 1>>, DefaultExplorationRate, <<1, 1>> }

\* candidate variants (content, style, ai_review): two
\* different variants of equal reward 0.9, a weak review, the fallback
\* verdict, and a dict without ai_review
Variants ==
    { [content |-> <<"write", 1>>, style |-> "engaging",
       ai_review |-> [quality_score |-> 9, ready_for_human |-> TRUE]],
      [content |-> <<"write", 2>>, style |-> "creative",
       ai_review |-> [quality_score |-> 10, clarity_score |-> 8,
                      ready_for_human |-> TRUE]],
      [content |-> <<"write", 3>>, style |-> "concise",
       ai_review |-> [quality_score |-> 5, ready_for_human |-> FALSE]],
      [content |-> <<"write", 4>>, style |-> "professional",
       ai_review |-> FallbackVerdict("parse_error")],
      [content |-> <<"write", 5>>, style |-> "detailed"] }

VariantLists == UNION { [1..n -> Variants] : n \in 1..MaxVariants }

\* lines 12-23, had the engine recorded its choice in the ledger
CallSelectBestVersion_RecordsChoice ==
    /\ engine.versions # <<>>
    /\ \E draw \in RandomDraws, pick \in DOMAIN engine.versions :
         LET r == select_best_version(engine.versions, engine.exploration_rate,
                                      draw, pick)
         IN  /\ returned' = [op |-> "select_best_version", draw |-> draw,
                             explored |-> r.explored, value |-> r.value]
             /\ learning_history' = Append(learning_history,
                    FeedbackEntry("v1", 3, [style |-> r.value.style], <<1, 1>>, "selected"))
    /\ UNCHANGED <<persisted, style_preferences, rm_error, reward_args, reward>>
    /\ UNCHANGED runVars
    /\ UNCHANGED concVars
    /\ UNCHANGED engineVars

\* the call of select_best_version on the engine's list
CallSelectBestVersion ==
    /\ engine.versions # <<>>
    /\ \E draw \in RandomDraws, pick \in DOMAIN engine.versions :
         LET r == select_best_version(engine.versions, engine.exploration_rate,
                                      draw, pick)
         IN  returned' = [op |-> "select_best_version", draw |-> draw,
                          explored |-> r.explored, value |-> r.value]
    /\ UNCHANGED <<learning_history, persisted, style_preferences, rm_error,
                   reward_args, reward>>
    /\ UNCHANGED runVars
    /\ UNCHANGED concVars
    /\ UNCHANGED engineVars

---------------------------------------------------------------------------
(* ContentSelectionEngine.generate_multiple_versions *)

\* line 26: styles
EngineStyles == {"engaging", "professional", "creative", "concise", "detailed"}

\* what the reviewer of line 33 may answer: a parsed verdict or the fallback
EngineReviewOutcomes ==
    { <<"ok", [quality_score |-> 9, ready_for_human |-> TRUE,
               improvements_needed |-> <<>>, overall_feedback |-> "notes"]>>,
      <<"parse_error", FallbackVerdict("parse_error")>> }

\* lines 25-29: the call, with n_versions given
GenStart ==
    /\ engine.pc = "idle"
    /\ \E n \in 0..MaxVariants :
         engine' = [engine EXCEPT !.pc = "loop", !.n_versions = n,
                                  !.versions = <<>>, !.calls = <<>>]
    /\ UNCHANGED rewardVars
    /\ UNCHANGED runVars
    /\ UNCHANGED concVars

\* lines 31-32, had each round rewritten what the round before produced
GenWriteOk_Chains ==
    /\ engine.pc = "loop"
    /\ Len(engine.versions) < engine.n_versions
    /\ \E s \in EngineStyles :
         engine' = [engine EXCEPT
                      !.calls = Append(@, [op |-> "write",
                                           content |-> IF engine.versions = <<>>
                                                       THEN engine.content
                                                       ELSE Last(engine.versions).content,
                                           style |-> s, ok |-> TRUE,
                                           out |-> <<"write", Len(engine.versions) + 1>>]),
                      !.pc = "review"]
    /\ UNCHANGED rewardVars
    /\ UNCHANGED runVars
    /\ UNCHANGED concVars

\* lines 30-32 when rewrite_content returns: a style is drawn and the source
\* content rewritten in it
GenWriteOk ==
    /\ engine.pc = "loop"
    /\ Len(engine.versions) < engine.n_versions
    /\ \E s \in EngineStyles :
         engine' = [engine EXCEPT
                      !.calls = Append(@, [op |-> "write", content |-> engine.content,
                                           style |-> s, ok |-> TRUE,
                                           out |-> <<"write", Len(engine.versions) + 1>>]),
                      !.pc = "review"]
    /\ UNCHANGED rewardVars
    /\ UNCHANGED runVars
    /\ UNCHANGED concVars

\* lines 30-32 when rewrite_content raises RuntimeError: nothing catches it
GenWriteFail ==
    /\ engine.pc = "loop"
    /\ Len(engine.versions) < engine.n_versions
    /\ \E s \in EngineStyles :
         engine' = [engine EXCEPT
                      !.calls = Append(@, [op |-> "write", content |-> engine.content,
                                           style |-> s, ok |-> FALSE]),
                      !.pc = "failed"]
    /\ UNCHANGED rewardVars
    /\ UNCHANGED runVars
    /\ UNCHANGED concVars

\* lines 33-38: the review of the round's text against the source (never
\* raises) and the variant appended
GenReview ==
    /\ engine.pc = "review"
    /\ \E o \in EngineReviewOutcomes :
         engine' = [engine EXCEPT
                      !.calls = Append(@, [op |-> "review", original |-> engine.content,
                                           content |-> Last(engine.calls).out,
                                           outcome |-> o[1], verdict |-> o[2]]),
                      !.versions = Append(@, [content |-> Last(engine.calls).out,
                                              style |-> Last(engine.calls).style,
                                              ai_review |-> o[2]]),
                      !.pc = "loop"]
    /\ UNCHANGED rewardVars
    /\ UNCHANGED runVars
    /\ UNCHANGED concVars

\* lines 30 and 39: range(n_versions) is exhausted and the list is returned
GenReturn ==
    /\ engine.pc = "loop"
    /\ Len(engine.versions) >= engine.n_versions
    /\ engine' = [engine EXCEPT !.pc = "returned"]
    /\ UNCHANGED rewardVars
    /\ UNCHANGED runVars
    /\ UNCHANGED concVars

---------------------------------------------------------------------------
(* Specifications *)

RunIdle ==
    /\ pc = "idle"
    /\ url = "u1"
    /\ style = "engaging"
    /\ max_iterations = 1
    /\ scraped = [success |-> FALSE]
    /\ current_content = SourceText
    /\ iterations = <<>>
    /\ i = 0
    /\ result = NoResult
    /\ error = NoError
    /\ calls = <<>>

\* RewardModel() over an empty data directory: lines 7-11
RewardIdle ==
    /\ learning_history = <<>>
    /\ persisted = NoFile
    /\ style_preferences = NoScores
    /\ rm_error = NoError
    /\ returned = NoReturn

\* the two callers of the shared file
Callers == {1, 2}

\* neither caller has recorded anything
ConcIdle ==
    /\ callers = [c \in Callers |->
                    [pc |-> "idle", learning_history |-> <<>>,
                     style_preferences |-> NoScores]]
    /\ recorded = <<>>

\* one refinement run in a session that may have completed a run before
Init ==
    /\ RunIdle
    /\ EngineIdle
    /\ \E n \in 0..1 :
         /\ versions = [k \in 1..n |-> EarlierVersion]
         /\ processing_history = [k \in 1..n |-> EarlierResult]
    /\ RewardIdle
    /\ ConcIdle
    /\ reward_args = None
    /\ reward = NotComputed

Next == StartRun \/ GenerateOk \/ GenerateFail \/ Review \/ Decide \/ Save

Spec == Init /\ [][Next]_vars

\* Once process_url is called, each of its steps is a blocking call that
\* returns or raises, so the handler always takes its next step; which of the
\* two a generator call does is not fixed.  Nothing makes the user start a run.
FairSpec ==
    Spec /\ WF_vars(GenerateOk \/ GenerateFail)
         /\ WF_vars(Review) /\ WF_vars(Decide) /\ WF_vars(Save)

\* the reward ledger under a sequence of record_feedback calls
RewardInit ==
    /\ RunIdle
    /\ EngineIdle
    /\ versions = <<>>
    /\ processing_history = <<>>
    /\ RewardIdle
    /\ ConcIdle
    /\ reward_args = None
    /\ reward = NotComputed

CallRecordFeedback ==
    /\ Len(learning_history) < MaxFeedback
    /\ \E m \in Metadatas, t \in RatingTenths :
         RecordFeedback("v1", 3, m, Rat(t, 10), "text")

CallRecordFeedbackSaveFails ==
    /\ Len(learning_history) < MaxFeedback
    /\ \E m \in Metadatas, t \in RatingTenths :
         RecordFeedbackSaveFails("v1", 3, m, Rat(t, 10), "text")

RewardNext == CallRecordFeedback \/ CallRecordFeedbackSaveFails

RewardSpec == RewardInit /\ [][RewardNext]_vars

\* the queries of a RewardModel between record_feedback calls.  The queries read
\* learning_history alone, which record_feedback extends in the same way
\* whether or not save_history raises, so the failing save is left to RewardSpec.
QueryInit ==
    /\ RunIdle
    /\ EngineIdle
    /\ versions = <<>>
    /\ processing_history = <<>>
    /\ RewardIdle
    /\ ConcIdle
    /\ reward_args = None
    /\ reward = NotComputed

\* line 351 of app.py: record_feedback with the rating of the slider
CallRecordFeedbackFromSlider ==
    /\ Len(learning_history) < MaxFeedback
    /\ \E m \in AppMetadatas, t \in SliderTenths :
         RecordFeedback("v1", 3, m, Rat(t, 10), "text")

CallPredictQuality ==
    /\ \E m \in QueryMetadatas :
         returned' = [op |-> "predict_quality", metadata |-> m,
                      value |-> predict_quality(learning_history, m)]
    /\ UNCHANGED <<learning_history, persisted, style_preferences, rm_error,
                   reward_args, reward>>
    /\ UNCHANGED runVars
    /\ UNCHANGED engineVars
    /\ UNCHANGED concVars

CallGetBestParameters ==
    /\ returned' = [op |-> "get_best_parameters",
                    value |-> get_best_parameters(learning_history)]
    /\ UNCHANGED <<learning_history, persisted, style_preferences, rm_error,
                   reward_args, reward>>
    /\ UNCHANGED runVars
    /\ UNCHANGED engineVars
    /\ UNCHANGED concVars

CallGetStatistics ==
    /\ \E st \in GetStatisticsResults(learning_history) :
         returned' = [op |-> "get_statistics", value |-> st]
    /\ UNCHANGED <<learning_history, persisted, style_preferences, rm_error,
                   reward_args, reward>>
    /\ UNCHANGED runVars
    /\ UNCHANGED engineVars
    /\ UNCHANGED concVars

QueryNext ==
    CallRecordFeedbackFromSlider \/ CallPredictQuality \/ CallGetBestParameters
    \/ CallGetStatistics

QuerySpec == QueryInit /\ [][QueryNext]_vars

\* the metadata and ratings recorded where the file matters more than the
\* variety of the entries
ConcMetadatas ==
    { [style |-> "engaging", iteration_count |-> 1],
      [style |-> "professional", iteration_count |-> 2] }

ConcTenths == {6, 10}

\* the last construction raised, so no RewardModel exists (line 53 of app.py
\* did not bind rm)
NoInstance == returned.op = "__init__" /\ returned.raised

\* the life of a ledger: record_feedback calls, of which some fail to write,
\* and restarts of the process, each constructing a new RewardModel over the
\* file as it is
LifeInit ==
    /\ RunIdle
    /\ EngineIdle
    /\ versions = <<>>
    /\ processing_history = <<>>
    /\ RewardIdle
    /\ ConcIdle
    /\ reward_args = None
    /\ reward = NotComputed

LifeRecordFeedback ==
    /\ ~NoInstance
    /\ Len(learning_history) < MaxFeedback
    /\ \E m \in ConcMetadatas, t \in ConcTenths :
         RecordFeedback("v1", 3, m, Rat(t, 10), "text")

LifeRecordFeedbackSaveFails ==
    /\ ~NoInstance
    /\ Len(learning_history) < MaxFeedback
    /\ \E m \in ConcMetadatas, t \in ConcTenths :
         RecordFeedbackSaveFails("v1", 3, m, Rat(t, 10), "text")

\* lines 7-11 (line 53 of app.py in a new process): the history is what
\* load_history returns and style_preferences is the empty dict; when
\* json.load raises, the exception leaves __init__ and there is no instance
Construct ==
    /\ IF load_history(persisted).raised
       THEN /\ returned' = [op |-> "__init__", raised |-> TRUE]
            /\ rm_error' = "json_error"
            /\ learning_history' = <<>>
            /\ style_preferences' = NoScores
       ELSE /\ returned' = [op |-> "__init__", raised |-> FALSE]
            /\ rm_error' = NoError
            /\ learning_history' = load_history(persisted).history
            /\ style_preferences' = NoScores
    /\ UNCHANGED <<persisted, reward_args, reward>>
    /\ UNCHANGED runVars
    /\ UNCHANGED engineVars
    /\ UNCHANGED concVars

LifeNext == LifeRecordFeedback \/ LifeRecordFeedbackSaveFails \/ Construct

LifeSpec == LifeInit /\ [][LifeNext]_vars

\* the entry the file may hold before either caller is constructed
StoredEntry ==
    FeedbackEntry("v0", 3, [style |-> "unknown", iteration_count |-> 1], <<4, 5>>, "text")

\* two callers construct a RewardModel each (lines 7-11) over the same file,
\* which is missing or holds one entry; nothing serializes their calls
ConcInit ==
    /\ RunIdle
    /\ EngineIdle
    /\ versions = <<>>
    /\ processing_history = <<>>
    /\ learning_history = <<>>
    /\ style_preferences = NoScores
    /\ rm_error = NoError
    /\ returned = NoReturn
    /\ reward_args = None
    /\ reward = NotComputed
    /\ persisted \in {NoFile, FileWith(<<StoredEntry>>)}
    /\ callers = [c \in Callers |->
                    [pc |-> "idle",
                     learning_history |-> load_history(persisted).history,
                     style_preferences |-> NoScores]]
    /\ recorded = <<>>

\* the record_feedback calls begun: those returned and those in progress
CallsBegun == Len(recorded) + Cardinality({c \in Callers : callers[c].pc # "idle"})

\* lines 14-23 of record_feedback in caller c: the entry is appended to the
\* caller's own list
AppendEntry(c) ==
    /\ callers[c].pc = "idle"
    /\ CallsBegun < MaxFeedback
    /\ \E m \in ConcMetadatas, t \in ConcTenths :
         callers' = [callers EXCEPT
                       ![c].learning_history =
                           Append(@, FeedbackEntry("v1", 3, m, Rat(t, 10), "text")),
                       ![c].pc = "open"]
    /\ UNCHANGED <<persisted, recorded>>
    /\ UNCHANGED <<learning_history, style_preferences, rm_error, reward_args, reward,
                   returned>>
    /\ UNCHANGED runVars
    /\ UNCHANGED engineVars

\* line 56 of save_history in caller c: open(path, 'w') creates or truncates
\* the file, which holds no JSON document until something is written
OpenForWrite(c) ==
    /\ callers[c].pc = "open"
    /\ persisted' = BrokenFile
    /\ callers' = [callers EXCEPT ![c].pc = "dump"]
    /\ UNCHANGED recorded
    /\ UNCHANGED <<learning_history, style_preferences, rm_error, reward_args, reward,
                   returned>>
    /\ UNCHANGED runVars
    /\ UNCHANGED engineVars

\* line 57, had the dump written the new entry alone
DumpAndReturn_NewEntryOnly(c) ==
    /\ callers[c].pc = "dump"
    /\ persisted' = FileWith(<<Last(callers[c].learning_history)>>)
    /\ callers' = [callers EXCEPT
                     ![c].style_preferences = UpdatedWeights(callers[c].learning_history),
                     ![c].pc = "idle"]
    /\ recorded' = Append(recorded,
                          [caller |-> c, entry |-> Last(callers[c].learning_history)])
    /\ UNCHANGED <<learning_history, style_preferences, rm_error, reward_args, reward,
                   returned>>
    /\ UNCHANGED runVars
    /\ UNCHANGED engineVars

\* line 57 of save_history in caller c, then line 25: json.dump writes the
\* caller's whole list from the start of the file and the file is closed;
\* update_weights follows and the call returns.  When the other caller has
\* written a document since this caller's open, this caller's bytes overlay
\* it: the file holds this caller's document, or, when that document is the
\* shorter, this document followed by the rest of the other, which is no JSON
DumpAndReturn(c) ==
    /\ callers[c].pc = "dump"
    /\ \/ persisted' = FileWith(callers[c].learning_history)
       \/ /\ persisted.state = "json"
          /\ Len(persisted.entries) > Len(callers[c].learning_history)
          /\ persisted' = BrokenFile
    /\ callers' = [callers EXCEPT
                     ![c].style_preferences = UpdatedWeights(callers[c].learning_history),
                     ![c].pc = "idle"]
    /\ recorded' = Append(recorded,
                          [caller |-> c, entry |-> Last(callers[c].learning_history)])
    /\ UNCHANGED <<learning_history, style_preferences, rm_error, reward_args, reward,
                   returned>>
    /\ UNCHANGED runVars
    /\ UNCHANGED engineVars

ConcNext == \E c \in Callers : AppendEntry(c) \/ OpenForWrite(c) \/ DumpAndReturn(c)

ConcSpec == ConcInit /\ [][ConcNext]_vars

\* select_best_version on every list of up to MaxVariants variants, by an
\* engine of any exploration rate
SelectInit ==
    /\ RunIdle
    /\ versions = <<>>
    /\ processing_history = <<>>
    /\ RewardIdle
    /\ ConcIdle
    /\ reward_args = None
    /\ reward = NotComputed
    /\ \E rate \in ExplorationRates, vs \in VariantLists :
         engine = [exploration_rate |-> rate, pc |-> "idle",
                   content |-> SourceText, n_versions |-> 0, versions |-> vs,
                   calls |-> <<>>]

SelectNext == CallSelectBestVersion

SelectSpec == SelectInit /\ [][SelectNext]_vars

\* one call of generate_multiple_versions
GenInit ==
    /\ RunIdle
    /\ versions = <<>>
    /\ processing_history = <<>>
    /\ RewardIdle
    /\ ConcIdle
    /\ EngineIdle
    /\ reward_args = None
    /\ reward = NotComputed

GenNext == GenStart \/ GenWriteOk \/ GenWriteFail \/ GenReview \/ GenReturn

GenSpec == GenInit /\ [][GenNext]_vars

\* calculate_reward on every argument pair
CalcInit ==
    /\ RunIdle
    /\ EngineIdle
    /\ versions = <<>>
    /\ processing_history = <<>>
    /\ RewardIdle
    /\ ConcIdle
    /\ reward_args \in [ai_review : AiReviews, human_feedback : HumanFeedbacks]
    /\ reward = NotComputed

CallCalculateReward ==
    /\ reward = NotComputed
    /\ reward' = calculate_reward(reward_args.ai_review, reward_args.human_feedback)
    /\ UNCHANGED <<learning_history, persisted, style_preferences, rm_error,
                   reward_args, returned>>
    /\ UNCHANGED runVars
    /\ UNCHANGED engineVars
    /\ UNCHANGED concVars

CalcNext == CallCalculateReward

CalcSpec == CalcInit /\ [][CalcNext]_vars

\* every operation of the reward model and the selection of the engine, in
\* any order, over one ledger
FrameInit ==
    /\ RunIdle
    /\ versions = <<>>
    /\ processing_history = <<>>
    /\ RewardIdle
    /\ ConcIdle
    /\ reward_args = [ai_review |-> [quality_score |-> 7],
                      human_feedback |-> [rating |-> <<4, 5>>]]
    /\ reward = NotComputed
    /\ engine = [exploration_rate |-> DefaultExplorationRate, pc |-> "idle",
                 content |-> SourceText, n_versions |-> 0,
                 versions |-> << [content |-> <<"write", 1>>, style |-> "engaging",
                                  ai_review |-> FallbackVerdict("parse_error")],
                                 [content |-> <<"write", 2>>, style |-> "concise",
                                  ai_review |-> [quality_score |-> 9,
                                                 ready_for_human |-> TRUE]] >>,
                 calls |-> <<>>]

FrameNext ==
    \/ LifeRecordFeedback
    \/ CallPredictQuality
    \/ CallGetBestParameters
    \/ CallGetStatistics
    \/ CallCalculateReward
    \/ CallSelectBestVersion

FrameSpec == FrameInit /\ [][FrameNext]_vars

---------------------------------------------------------------------------
(* Vocabulary of the properties *)

\* the exit condition as the design states it: ready_for_human is true and
\* quality_score is at least the threshold 8
SatisfiesExit(review) ==
    /\ "ready_for_human" \in DOMAIN review
    /\ review.ready_for_human = TRUE
    /\ "quality_score" \in DOMAIN review
    /\ review.quality_score >= 8

GeneratorCalls == SelectSeq(calls, LAMBDA c : c.op \in {"write", "edit"})
ReviewerCalls == SelectSeq(calls, LAMBDA c : c.op = "review")
RoundsStarted == Len(GeneratorCalls)
GeneratorFailed == \E k \in DOMAIN calls : calls[k].op \in {"write", "edit"} /\ ~calls[k].ok
Terminated == pc \in {"done", "failed", "scrape_failed"}
NoExitIn(trace) == \A k \in DOMAIN trace : ~SatisfiesExit(trace[k].review)

InUnitInterval(x) == RLeq(<<0, 1>>, x) /\ RLeq(x, <<1, 1>>)

---------------------------------------------------------------------------
(* Properties of the refinement loop *)

\* C1: whatever the reviewer answers, a run that was started ends (Done, or
\* the error of a failed generator call or of a failed scrape), a run whose
\* generator calls all succeeded ends in Done, and at no time has a run started
\* more rounds, or recorded more iterations, than max_iterations.
C1_TerminatesWithinBudget ==
    /\ (pc # "idle") ~> Terminated
    /\ [](RoundsStarted <= max_iterations /\ Len(iterations) <= max_iterations)
    /\ []((pc = "done") => ~GeneratorFailed)
    /\ []((Terminated /\ ~GeneratorFailed /\ scraped.success) => pc = "done")

\* a run that never met the exit condition and used the whole budget
C1_Witness ==
    /\ pc = "done"
    /\ max_iterations = MaxIterBound
    /\ RoundsStarted = max_iterations
    /\ NoExitIn(iterations)

\* C2: the step after a review leaves the loop exactly when the verdict meets
\* the exit condition or the rounds completed equal max_iterations, and goes
\* back to Generating otherwise; so only the last record of a trace can carry
\* a verdict that meets the exit condition.
C2_DecisionRule ==
    /\ [][pc = "decision" =>
            /\ pc' \in {"saving", "generating"}
            /\ pc' = "saving" <=>
                  (SatisfiesExit(Last(iterations).review)
                   \/ Len(iterations) = max_iterations)
            /\ iterations' = iterations]_vars
    /\ [](\A k \in DOMAIN iterations :
             k < Len(iterations) => ~SatisfiesExit(iterations[k].review))
    /\ [](pc \in {"saving", "done"} =>
             (SatisfiesExit(Last(iterations).review)
              \/ Len(iterations) = max_iterations))

\* a run that went back to Generating once and then left early
C2_Witness ==
    /\ pc = "done"
    /\ max_iterations = 3
    /\ Len(iterations) = 2
    /\ SatisfiesExit(iterations[2].review)

\* C3: when the first review meets the exit condition the trace keeps exactly
\* one record and the editor is never called.
C3_StopsAfterFirstRound ==
    (Len(iterations) >= 1 /\ SatisfiesExit(iterations[1].review)) =>
        /\ Len(iterations) = 1
        /\ RoundsStarted = 1
        /\ \A k \in DOMAIN calls : calls[k].op # "edit"
        /\ pc \in {"decision", "saving", "done"}
        /\ pc = "done" => Len(result.iterations) = 1

C3_Witness ==
    /\ pc = "done"
    /\ max_iterations = 3
    /\ iterations[1].review.ready_for_human
    /\ Get(iterations[1].review, "quality_score", 0) = 9
    /\ Len(result.iterations) = 1

\* C4: a completed run none of whose reviews met the exit condition made
\* exactly max_iterations rounds and returns a trace of that length.
C4_UsesWholeBudget ==
    (pc = "done" /\ NoExitIn(result.iterations)) =>
        /\ Len(result.iterations) = max_iterations
        /\ RoundsStarted = max_iterations
        /\ Len(ReviewerCalls) = max_iterations
        /\ result.final = <<"edit", max_iterations>> \/ max_iterations = 1

\* three rounds, each reviewed with quality_score 5
C4_Witness ==
    /\ pc = "done"
    /\ max_iterations = 3
    /\ Len(result.iterations) = 3
    /\ \A k \in 1..3 : Get(result.iterations[k].review, "quality_score", 0) = 5
    /\ result.final = <<"edit", 3>>

\* C5: once a generator call has failed the run is over with that error:
\* nothing is returned, no version is saved, nothing is appended to the
\* processing history, and no further capability call is made.
C5_GenerationFailureIsFatal ==
    /\ [](GeneratorFailed =>
            /\ pc = "failed"
            /\ error \in {"AI generation failed", "AI editing failed"}
            /\ result = NoResult
            /\ ~Last(calls).ok
            /\ Len(SelectSeq(calls, LAMBDA c : c.op \in {"write", "edit"} /\ ~c.ok)) = 1)
    /\ [][GeneratorFailed' =>
            /\ versions' = versions
            /\ processing_history' = processing_history
            /\ result' = NoResult]_vars
    /\ [][GeneratorFailed => UNCHANGED vars]_vars

\* the editor fails in round 2, after a first round was recorded
C5_Witness ==
    /\ pc = "failed"
    /\ error = "AI editing failed"
    /\ Len(iterations) = 1
    /\ Len(processing_history) = 1

C7_DoneExposesLastRound ==
    pc = "done" =>
        /\ result.final = Last(result.iterations).content
        /\ result.final = Last(GeneratorCalls).out
        /\ Len(result.iterations) = RoundsStarted
        /\ \A k \in DOMAIN result.iterations :
              /\ result.iterations[k].content = GeneratorCalls[k].out
              /\ result.iterations[k].review = ReviewerCalls[k].verdict
        /\ Last(versions).rewritten = result.final
        /\ Last(versions).metadata.iterations = RoundsStarted
        /\ Last(versions).metadata.quality_score
              = Get(Last(ReviewerCalls).verdict, "quality_score", 0)
        /\ Last(processing_history) = result

C7_Witness ==
    /\ pc = "done"
    /\ Len(result.iterations) = 3
    /\ result.final = <<"edit", 3>>
    /\ Last(versions).metadata.quality_score = 8

\* C8: the k-th record of the trace carries iteration index k, and a completed
\* run has at least one record, so the iteration count saved and returned is
\* at least 1.
C8_TraceIndexed ==
    /\ \A k \in DOMAIN iterations : iterations[k].iteration = k
    /\ pc = "done" =>
          /\ Len(result.iterations) >= 1
          /\ \A k \in DOMAIN result.iterations : result.iterations[k].iteration = k
          /\ Last(versions).metadata.iterations >= 1
          /\ Last(versions).metadata.iterations = Len(result.iterations)

C8_Witness ==
    /\ pc = "done"
    /\ Len(result.iterations) = 3
    /\ result.iterations[3].iteration = 3

---------------------------------------------------------------------------
(* Properties of the reward model *)

\* C9: calculate_reward returns a value within [0,1] for any zero or more
\* non-zero verdict scores and any rating in human_feedback['rating'].
C9_RewardInUnitInterval ==
    reward # NotComputed => InUnitInterval(reward)

\* C10: every entry record_feedback has stored has human_rating within [0,1].
C10_StoredRatingInUnitInterval ==
    \A k \in DOMAIN learning_history : InUnitInterval(learning_history[k].human_rating)

\* the reference of C11, in integers: S the sum and n the number of the
\* non-zero scores among the four keys, baseline S/(10 n) or 1/2, and with a
\* rating a/b the blend 7a/(10b) + 3 baseline/10
RefScoreKeys == {"quality_score", "clarity_score", "engagement_score", "accuracy_score"}
RefPresent(ai_review) ==
    { k \in RefScoreKeys \cap DOMAIN ai_review : ai_review[k] # 0 }
RECURSIVE RefTotal(_, _)
RefTotal(ai_review, keys) ==
    IF keys = {} THEN 0
    ELSE LET k == CHOOSE x \in keys : TRUE
         IN  ai_review[k] + RefTotal(ai_review, keys \ {k})
RefBaseline(ai_review) ==
    LET n == Cardinality(RefPresent(ai_review))
    IN  IF n = 0 THEN <<1, 2>>
        ELSE Rat(RefTotal(ai_review, RefPresent(ai_review)), 10 * n)
RefReward(ai_review, human_feedback) ==
    LET b == RefBaseline(ai_review)
    IN  IF human_feedback # None /\ "rating" \in DOMAIN human_feedback
        THEN Rat(7 * human_feedback.rating[1] * 10 * b[2]
                    + 3 * b[1] * 10 * human_feedback.rating[2],
                 10 * human_feedback.rating[2] * 10 * b[2])
        ELSE b

\* C11: calculate_reward equals the reference: the mean of the non-zero
\* scores over 10 (0.5 when there is none), blended as 0.7 rating + 0.3
\* baseline when the human feedback carries a rating.
C11_RewardEqualsReference ==
    reward # NotComputed =>
        reward = RefReward(reward_args.ai_review, reward_args.human_feedback)

\* a rating blended with the mean of two non-zero scores out of three given
C11_Witness ==
    /\ reward # NotComputed
    /\ reward_args.human_feedback = [rating |-> <<3, 5>>]
    /\ reward_args.ai_review
          = [quality_score |-> 7, clarity_score |-> 0, accuracy_score |-> 10]
    /\ reward = <<27, 40>>

\* C25: the first capability call of a run is Generator.write on the source,
\* and it is the only write; every later generator call is an edit that
\* receives the content the round before produced and the verdict recorded
\* for it; generator and reviewer calls alternate, the review of a round
\* following its generation and reading what it produced.
C25_WriteOnceThenEdits ==
    /\ \A k \in DOMAIN calls :
          /\ (calls[k].op = "write") <=> (k = 1)
          /\ (calls[k].op = "review") <=> (k % 2 = 0)
          /\ (calls[k].op = "edit") <=> (k % 2 = 1 /\ k > 1)
          /\ calls[k].op = "review" =>
                /\ calls[k - 1].ok
                /\ calls[k].content = calls[k - 1].out
                /\ iterations[k \div 2].content = calls[k].content
                /\ iterations[k \div 2].review = calls[k].verdict
          /\ calls[k].op = "edit" =>
                /\ calls[k].content = calls[k - 2].out
                /\ calls[k].content = iterations[(k - 1) \div 2].content
                /\ calls[k].review = iterations[(k - 1) \div 2].review
    /\ calls # <<>> => calls[1].content = scraped.content
    /\ pc \in {"reviewing", "decision", "saving", "done", "failed"} => calls # <<>>
    /\ pc \in {"decision", "saving", "done"} =>
          /\ Len(GeneratorCalls) = Len(iterations)
          /\ Len(ReviewerCalls) = Len(iterations)

\* a run of three rounds: write, review, edit, review, edit, review
C25_Witness ==
    /\ pc = "done"
    /\ [k \in DOMAIN calls |-> calls[k].op]
          = <<"write", "review", "edit", "review", "edit", "review">>
    /\ calls[5].review = iterations[2].review

\* C27: the verdict substituted for a failed review (quality_score 7,
\* ready_for_human true) does not meet the exit condition; after a failed
\* review in a round before the last the run goes back to Generating and
\* the next capability call is an edit; a finished run whose reviews all
\* failed has made exactly max_iterations rounds.
C27_FallbackNeverExits ==
    /\ [](\A k \in DOMAIN calls :
             (calls[k].op = "review" /\ calls[k].outcome # "ok") =>
                 /\ calls[k].verdict.quality_score = 7
                 /\ calls[k].verdict.ready_for_human = TRUE
                 /\ ~SatisfiesExit(calls[k].verdict))
    /\ [][(/\ pc = "decision"
           /\ Last(calls).outcome # "ok"
           /\ Len(iterations) < max_iterations) => pc' = "generating"]_vars
    /\ \A k \in 1..MaxIterBound :
          (/\ pc = "decision"
           /\ Len(iterations) = k
           /\ Last(calls).outcome # "ok"
           /\ k < max_iterations)
          ~> (Len(calls) > 2 * k /\ calls[2 * k + 1].op = "edit")
    /\ []((/\ pc = "done"
           /\ \A k \in DOMAIN calls :
                 calls[k].op = "review" => calls[k].outcome # "ok")
          => (Len(iterations) = max_iterations /\ RoundsStarted = max_iterations))

\* a finished run of three rounds whose reviews all failed
C27_Witness ==
    /\ pc = "done"
    /\ max_iterations = 3
    /\ Len(iterations) = 3
    /\ \A k \in DOMAIN calls : calls[k].op = "review" => calls[k].outcome # "ok"

---------------------------------------------------------------------------
(* Reference means of the ledger properties: ratings are multiples of 0.1, so
   a mean is the sum of the tenths over ten times the count *)

Tenths(r) == (r[1] * 10) \div r[2]

RECURSIVE RefTenthsSum(_, _)
RefTenthsSum(history, idx) ==
    IF idx = {} THEN 0
    ELSE LET k == CHOOSE x \in idx : TRUE
         IN  Tenths(history[k].human_rating) + RefTenthsSum(history, idx \ {k})

\* the mean rating of the entries at the indices idx (idx not empty)
RefMean(history, idx) == Rat(RefTenthsSum(history, idx), 10 * Cardinality(idx))

WithStyle(history, s) == { k \in DOMAIN history : history[k].style = s }
WithCount(history, c) == { k \in DOMAIN history : history[k].iteration_count = c }
RatingsInOrder(history) == [k \in DOMAIN history |-> Tenths(history[k].human_rating)]

\* the position of the first entry at one of the indices idx
FirstIndex(idx) == CHOOSE k \in idx : \A j \in idx : k <= j

C12_StatisticsReflectNewEntry ==
    /\ [](returned.op = "get_statistics" /\ learning_history # <<>> =>
            /\ returned.value.total_feedback = Len(learning_history)
            /\ returned.value.average_rating
                  = RefMean(learning_history, DOMAIN learning_history))
    /\ [][returned'.op = "record_feedback" =>
            /\ Len(learning_history') = Len(learning_history) + 1
            /\ \A st \in GetStatisticsResults(learning_history') :
                  /\ st.total_feedback = Len(learning_history) + 1
                  /\ st.average_rating
                        = Rat(RefTenthsSum(learning_history, DOMAIN learning_history)
                                + Tenths(Last(learning_history').human_rating),
                              10 * (Len(learning_history) + 1))]_vars

\* ratings 0.6 then 1.0: two entries, average 0.8
C12_Witness ==
    /\ returned.op = "get_statistics"
    /\ RatingsInOrder(learning_history) = <<6, 10>>
    /\ returned.value.total_feedback = 2
    /\ returned.value.average_rating = <<4, 5>>

\* C13: every step keeps the recorded entries as they are and where they are;
\* a record_feedback call adds exactly one entry at the end, also when its
\* version_id is already in the history, and nothing is raised unless the
\* write of the file failed.
C13_HistoryAppendOnly ==
    [][/\ SubSeq(learning_history', 1, Len(learning_history)) = learning_history
       /\ Len(learning_history') >= Len(learning_history)
       /\ returned'.op = "record_feedback" =>
             /\ Len(learning_history') = Len(learning_history) + 1
             /\ persisted' = [state |-> "json", entries |-> learning_history']
                   => rm_error' = NoError
       /\ returned'.op # "record_feedback" => learning_history' = learning_history]_vars

\* two entries of the same version_id, the second just recorded
C13_Witness ==
    /\ returned.op = "record_feedback"
    /\ rm_error = NoError
    /\ Len(learning_history) = 2
    /\ learning_history[1].version_id = learning_history[2].version_id
    /\ learning_history[1] # learning_history[2]

\* C14: after a record_feedback that returned, the file holds exactly the
\* in-memory history, and a RewardModel constructed from the file answers
\* get_statistics, get_best_parameters and predict_quality as the writing
\* instance does.
C14_ReloadReproducesResults ==
    (returned.op = "record_feedback" /\ rm_error = NoError) =>
        /\ persisted.state = "json"
        /\ persisted.entries = learning_history
        /\ LET fresh == load_history(persisted)
           IN  /\ ~fresh.raised
               /\ \A a \in GetStatisticsResults(learning_history) :
                     \A b \in GetStatisticsResults(fresh.history) : a = b
               /\ get_best_parameters(fresh.history) = get_best_parameters(learning_history)
               /\ \A m \in QueryMetadatas :
                     predict_quality(fresh.history, m) = predict_quality(learning_history, m)

\* C15: when every record_feedback call so far was made by one of the two
\* callers and that caller is between calls, the file holds the history the
\* callers loaded followed by every recorded entry, in order.  (The lost
\* update of two unserialized callers is the state of C15_Witness.)
C15_SingleWriterKeepsAll ==
    \A w \in Callers :
        LET o == CHOOSE c \in Callers : c # w
        IN  (/\ recorded # <<>>
             /\ \A k \in DOMAIN recorded : recorded[k].caller = w
             /\ callers[w].pc = "idle"
             /\ callers[o].pc = "idle")
            => /\ persisted.state = "json"
               /\ persisted.entries
                     = callers[o].learning_history
                         \o [k \in DOMAIN recorded |-> recorded[k].entry]

\* both callers have recorded one entry each and returned, the file is a
\* JSON document, and the entry recorded first is not in it
C15_Witness ==
    /\ Len(recorded) = 2
    /\ recorded[1].caller # recorded[2].caller
    /\ recorded[1].entry # recorded[2].entry
    /\ \A c \in Callers : callers[c].pc = "idle"
    /\ persisted.state = "json"
    /\ \A k \in DOMAIN persisted.entries : persisted.entries[k] # recorded[1].entry
    /\ \E k \in DOMAIN persisted.entries : persisted.entries[k] = recorded[2].entry

\* C16: predict_quality returns the mean rating of the entries of the
\* requested style ('unknown' when the metadata names none), and 0.5 when
\* the history has no entry of that style.
C16_PredictQualityIsStyleMean ==
    returned.op = "predict_quality" =>
        LET idx == WithStyle(learning_history,
                             IF "style" \in DOMAIN returned.metadata
                             THEN returned.metadata.style ELSE "unknown")
        IN  returned.value = IF idx = {} THEN <<1, 2>>
                             ELSE RefMean(learning_history, idx)

\* ratings 0.8, 0.6, 1.0 for engaging: 0.8
C16_Witness ==
    /\ returned.op = "predict_quality"
    /\ returned.metadata = [style |-> "engaging"]
    /\ RatingsInOrder(learning_history) = <<8, 6, 10>>
    /\ \A k \in DOMAIN learning_history : learning_history[k].style = "engaging"
    /\ returned.value = <<4, 5>>

\* C17: on a non-empty history get_best_parameters returns a style no other
\* style exceeds in mean rating, an iteration count no other exceeds in mean
\* rating, and as avg_score the mean rating of the style returned.
C17_BestParametersByMean ==
    (returned.op = "get_best_parameters" /\ learning_history # <<>>) =>
        LET h == learning_history
            v == returned.value
        IN  /\ WithStyle(h, v.style) # {}
            /\ \A k \in DOMAIN h :
                  RLeq(RefMean(h, WithStyle(h, h[k].style)),
                       RefMean(h, WithStyle(h, v.style)))
            /\ WithCount(h, v.iterations) # {}
            /\ \A k \in DOMAIN h :
                  RLeq(RefMean(h, WithCount(h, h[k].iteration_count)),
                       RefMean(h, WithCount(h, v.iterations)))
            /\ v.avg_score = RefMean(h, WithStyle(h, v.style))

\* engaging rated 0.6 twice (total 1.2), professional rated 1.0 once
C17_Witness ==
    /\ returned.op = "get_best_parameters"
    /\ Len(learning_history) = 3
    /\ RatingsInOrder(learning_history) = <<6, 6, 10>>
    /\ learning_history[1].style = "engaging"
    /\ learning_history[2].style = "engaging"
    /\ learning_history[3].style = "professional"
    /\ returned.value = [style |-> "professional", iterations |-> 2,
                         avg_score |-> <<1, 1>>]

\* C18: on a non-empty history the best_style of get_statistics is a style no
\* other style exceeds in mean rating.
C18_BestStyleByMean ==
    (returned.op = "get_statistics" /\ learning_history # <<>>) =>
        LET h == learning_history
        IN  \A k \in DOMAIN h :
               RLeq(RefMean(h, WithStyle(h, h[k].style)),
                    RefMean(h, WithStyle(h, returned.value.best_style)))

\* C19: on an empty history get_best_parameters returns style engaging,
\* iterations 2, avg_score 0.0.
C19_BestParametersDefaults ==
    (returned.op = "get_best_parameters" /\ learning_history = <<>>) =>
        returned.value = [style |-> "engaging", iterations |-> 2, avg_score |-> <<0, 1>>]

C19_Witness ==
    /\ returned.op = "get_best_parameters"
    /\ learning_history = <<>>
    /\ returned.value.iterations = 2

\* C20: on an empty history get_statistics returns total_feedback 0,
\* average_rating 0 and best_style unknown.
C20_StatisticsOfEmptyHistory ==
    (returned.op = "get_statistics" /\ learning_history = <<>>) =>
        /\ returned.value.total_feedback = 0
        /\ returned.value.average_rating = <<0, 1>>
        /\ returned.value.best_style = "unknown"

C20_Witness ==
    /\ returned.op = "get_statistics"
    /\ learning_history = <<>>
    /\ returned.value.best_style = "unknown"

---------------------------------------------------------------------------
(* Properties of the selection engine *)

\* the reward of a variant computed from its review alone
RefVariantReward(v) ==
    RefBaseline(IF "ai_review" \in DOMAIN v THEN v.ai_review ELSE [none \in {} |-> 0])

\* C29: a step made by predict_quality, get_best_parameters, get_statistics,
\* calculate_reward or select_best_version leaves the in-memory history,
\* style_preferences and the file as they are; a step that changes one of
\* them is a record_feedback call.
C29_OnlyRecordFeedbackWrites ==
    /\ [][(\/ returned'.op \in {"predict_quality", "get_best_parameters",
                                "get_statistics", "select_best_version"}
           \/ reward' # reward)
          => /\ learning_history' = learning_history
             /\ style_preferences' = style_preferences
             /\ persisted' = persisted]_vars
    /\ [][(\/ learning_history' # learning_history
           \/ style_preferences' # style_preferences
           \/ persisted' # persisted)
          => /\ returned'.op = "record_feedback"
             /\ reward' = reward]_vars

\* two entries recorded, then calculate_reward and a selection that explored
C29_Witness ==
    /\ returned.op = "select_best_version"
    /\ returned.explored
    /\ reward # NotComputed
    /\ Len(learning_history) = 2
    /\ persisted = [state |-> "json", entries |-> learning_history]
    /\ DOMAIN style_preferences = {"engaging", "professional"}

\* C22: generate_multiple_versions returns exactly n_versions variants in
\* the order of their generation; the k-th has a style of the five, as
\* content what the k-th write call returned for the source content in that
\* style, and as ai_review the verdict of the review of that content against
\* the source; every call reads the source and its own round's text only.
C22_VariantsAreIndependentRounds ==
    engine.pc = "returned" =>
        /\ Len(engine.versions) = engine.n_versions
        /\ Len(engine.calls) = 2 * engine.n_versions
        /\ \A k \in DOMAIN engine.versions :
              LET v == engine.versions[k]
                  w == engine.calls[2 * k - 1]
                  r == engine.calls[2 * k]
              IN  /\ v.style \in {"engaging", "professional", "creative", "concise",
                                  "detailed"}
                  /\ w.op = "write" /\ w.ok
                  /\ w.content = engine.content
                  /\ w.style = v.style
                  /\ w.out = v.content
                  /\ r.op = "review"
                  /\ r.original = engine.content
                  /\ r.content = v.content
                  /\ r.verdict = v.ai_review

\* three variants returned, in three styles, the second with the fallback verdict
C22_Witness ==
    /\ engine.pc = "returned"
    /\ engine.n_versions = 3
    /\ [k \in 1..3 |-> engine.versions[k].style] = <<"concise", "detailed", "creative">>
    /\ [k \in 1..3 |-> engine.versions[k].content]
          = << <<"write", 1>>, <<"write", 2>>, <<"write", 3>> >>
    /\ engine.calls[4].outcome = "parse_error"

\* C21: an engine of exploration_rate 0 never explores, and returns the
\* first variant of the list whose reward no other variant exceeds.
C21_ZeroExplorationPicksFirstMax ==
    (returned.op = "select_best_version" /\ engine.exploration_rate = <<0, 1>>) =>
        /\ ~returned.explored
        /\ \E k \in DOMAIN engine.versions :
              /\ returned.value = engine.versions[k]
              /\ \A j \in DOMAIN engine.versions :
                    RLeq(RefVariantReward(engine.versions[j]),
                         RefVariantReward(engine.versions[k]))
              /\ \A j \in 1..(k - 1) :
                    RefVariantReward(engine.versions[j])
                        # RefVariantReward(engine.versions[k])

\* the draw was 0, and the list holds a weak variant, then the two variants
\* of reward 0.9 with the one of the creative style first: that one is returned
C21_Witness ==
    /\ returned.op = "select_best_version"
    /\ engine.exploration_rate = <<0, 1>>
    /\ returned.draw = <<0, 1>>
    /\ Len(engine.versions) = 3
    /\ engine.versions[1].style = "concise"
    /\ engine.versions[2].style = "creative"
    /\ engine.versions[3].style = "engaging"
    /\ returned.value = engine.versions[2]

---------------------------------------------------------------------------
(* Properties of the ledger file under failing writes and restarts *)

\* the entries a reader finds in the file: none when it is missing or holds
\* no JSON document
EntriesOnFile == IF persisted.state = "json" THEN persisted.entries ELSE <<>>

\* the record_feedback call that made this step did not leave the whole
\* history in the file
WriteFailedInStep ==
    /\ returned'.op = "record_feedback"
    /\ persisted' # [state |-> "json", entries |-> learning_history']

\* C23: a record_feedback call that fails to write the ledger raises to its
\* caller, and one that wrote it does not.
C23_WriteFailureIsRaised ==
    [][/\ WriteFailedInStep => rm_error' = "io_error"
       /\ (returned'.op = "record_feedback" /\ ~WriteFailedInStep)
             => rm_error' = NoError]_vars

\* a call has just failed after truncating a file that held entries
C23_Witness ==
    /\ returned.op = "record_feedback"
    /\ rm_error = "io_error"
    /\ persisted.state = "corrupt"
    /\ Len(learning_history) >= 2

\* C24: constructing a RewardModel never raises, and over a missing or
\* corrupted file it starts with an empty history.
C24_ConstructionNeverRaises ==
    returned.op = "__init__" =>
        /\ ~returned.raised
        /\ persisted.state # "json" => learning_history = <<>>

C30_WeightsFollowHistory ==
    ~NoInstance =>
        /\ DOMAIN style_preferences
              = { learning_history[k].style : k \in DOMAIN learning_history }
        /\ \A st \in DOMAIN style_preferences :
              style_preferences[st] = RefMean(learning_history, WithStyle(learning_history, st))

=============================================================================
